---- MODULE Spec2Model ----
(***************************************************************************)
(* AeroRent UK financial calculator (src/app.py).                          *)
(*                                                                         *)
(* The script is re-executed top to bottom on every user interaction (one  *)
(* "pass").  What survives from one pass to the next is the widget values  *)
(* (cfg), the additional-costs list kept in the session state, and, for    *)
(* the pass a click starts, the value of the PDF button.  Everything else  *)
(* (results, vat_analysis, the sections rendered, the exception raised) is *)
(* a local of the pass, recomputed from scratch from these three, and is   *)
(* defined below as a function of them.                                    *)
(*                                                                         *)
(* Amounts are Python floats in the source.  They are modelled as exact    *)
(* rationals <<numerator, denominator>> in lowest terms, denominator > 0,  *)
(* so every formula is evaluated as written, without rounding error.       *)
(* float('inf') is the distinct value Inf; None is the distinct value None.*)
(***************************************************************************)
EXTENDS Integers, Sequences, FiniteSets, TLC

\* ------------------------------------------------------------------ bounds
\* largest quantity of one drone model the user enters
MaxQty == 1
\* largest number of entries in the additional-costs list
MaxCosts == 1

\* ------------------------------------------------- exact float arithmetic
Abs(n) == IF n < 0 THEN -n ELSE n

RECURSIVE GCD(_, _)
GCD(a, b) == IF b = 0 THEN a ELSE GCD(b, a % b)

\* the rational n/d in lowest terms (d > 0)
Rat(n, d) == LET g == GCD(Abs(n), d) IN <<n \div g, d \div g>>

\* an integer literal as a float
Q(n) == <<n, 1>>

RAdd(a, b) ==
    LET g == GCD(a[2], b[2])
    IN  Rat(a[1] * (b[2] \div g) + b[1] * (a[2] \div g), (a[2] \div g) * b[2])

RNeg(a) == <<-a[1], a[2]>>

RSub(a, b) == RAdd(a, RNeg(b))

RMul(a, b) ==
    LET g1 == GCD(Abs(a[1]), b[2])
        g2 == GCD(Abs(b[1]), a[2])
    IN  Rat((a[1] \div g1) * (b[1] \div g2), (a[2] \div g2) * (b[2] \div g1))

\* the exception Python raises for x / 0.0
ZeroDivisionError == "ZeroDivisionError"

\* what a / b evaluates to when b is zero: no value, the exception is raised
Raised == <<0, 0>>

\* a / b; dividing by zero raises ZeroDivisionError
RDiv(a, b) ==
    IF b[1] = 0 THEN Raised
    ELSE IF b[1] > 0 THEN RMul(a, <<b[2], b[1]>>)
    ELSE RMul(a, <<-b[2], -b[1]>>)

RLt(a, b) ==
    LET g == GCD(a[2], b[2]) IN a[1] * (b[2] \div g) < b[1] * (a[2] \div g)
RLe(a, b) ==
    LET g == GCD(a[2], b[2]) IN a[1] * (b[2] \div g) <= b[1] * (a[2] \div g)
RPos(a) == a[1] > 0

\* float('inf')
Inf == <<1, 0>>

\* None, where a dictionary of results is expected
None == [none |-> TRUE]

\* no exception / button not clicked
NoFault == "none"
NotClicked == "not clicked"

\* sum(...) over a sequence of floats
RECURSIVE RSum(_)
RSum(s) == IF s = << >> THEN Q(0) ELSE RAdd(Head(s), RSum(Tail(s)))

\* ------------------------------------------------------------ user inputs
\* the values a test user types into the number_input widgets (all >= 0,
\* as enforced by min_value=0.0)
QtyValues == {Q(n) : n \in 0..MaxQty}

CapitalInputs ==
    { [flip_cost |-> Q(0), mini4_cost |-> Q(0), case_cost_per_unit |-> Q(0),
       battery_cost |-> Q(0), filter_cost |-> Q(0), web_cost |-> Q(0),
       legal_cost |-> Q(0)],
      [flip_cost |-> Q(500), mini4_cost |-> Q(900), case_cost_per_unit |-> Q(45),
       battery_cost |-> Q(20), filter_cost |-> Q(10), web_cost |-> Q(50),
       legal_cost |-> Q(100)] }

OperationalInputs ==
    { [platform_cost |-> Q(0), domain_cost |-> Q(0), insurance_cost |-> Q(0),
       caa_cost |-> Q(0), marketing_cost |-> Q(0), repairs_cost |-> Q(0)],
      [platform_cost |-> Q(228), domain_cost |-> Q(30), insurance_cost |-> Q(750),
       caa_cost |-> Q(12), marketing_cost |-> Q(600),
       repairs_cost |-> Q(296)] }

AccountantInputs == {Q(0), Q(50)}

VariableInputs ==
    { [shipping_cost |-> Q(0), box_cost |-> Q(0), processing_fee |-> Q(0)],
      [shipping_cost |-> Q(32), box_cost |-> Rat(3, 2), processing_fee |-> Q(5)] }

PricingInputs ==
    { [flip_daily |-> Q(0), flip_weekend |-> Q(0), flip_weekly |-> Q(0),
       mini4_daily |-> Q(0), mini4_weekend |-> Q(0), mini4_weekly |-> Q(0)],
      [flip_daily |-> Q(32), flip_weekend |-> Q(32), flip_weekly |-> Q(32),
       mini4_daily |-> Q(32), mini4_weekend |-> Q(32), mini4_weekly |-> Q(32)],
      [flip_daily |-> Q(40), flip_weekend |-> Q(60), flip_weekly |-> Q(100),
       mini4_daily |-> Q(60), mini4_weekend |-> Q(100), mini4_weekly |-> Q(200)] }

\* a price list ten times higher, with which one drone earns more than the
\* VAT threshold at 20% utilisation
PremiumPricing ==
    [flip_daily |-> Q(400), flip_weekend |-> Q(600), flip_weekly |-> Q(1000),
     mini4_daily |-> Q(600), mini4_weekend |-> Q(1000), mini4_weekly |-> Q(2000)]

MixInputs ==
    { [mix_daily |-> Q(20), mix_weekend |-> Q(60), mix_weekly |-> Q(20)],
      [mix_daily |-> Q(10), mix_weekend |-> Q(65), mix_weekly |-> Q(25)],
      [mix_daily |-> Q(40), mix_weekend |-> Q(40), mix_weekly |-> Q(10)] }

AmountInputs == {Q(0), Q(100)}

\* overwrite the fields of record c that part supplies
Merge(c, part) ==
    [k \in DOMAIN c |-> IF k \in DOMAIN part THEN part[k] ELSE c[k]]

\* --------------------------------------------------------------- variables
VARIABLES
    cfg,               \* values of the sidebar / pricing widgets
    additional_costs,  \* st.session_state.additional_costs
    pdf_clicked        \* what st.button("Generate Business Plan PDF") returned

vars == <<cfg, additional_costs, pdf_clicked>>

\* ------------------------------------------------------ sidebar derivations
sd_card_cost_per_unit == Rat(3899, 100)

total_hard_cases_cost(c) ==
    RMul(RAdd(c.flip_qty, c.mini4_qty), c.case_cost_per_unit)

total_shipping_cost_per_rental(c) == RAdd(c.shipping_cost, c.box_cost)

mix_total(c) == RAdd(RAdd(c.mix_daily, c.mix_weekend), c.mix_weekly)

\* sequence of the amounts of the additional-costs entries
Amounts(costs) == [i \in 1..Len(costs) |-> costs[i].amount]

\* --------------------------------------------------------- calculate_financials
\* variant: an empty fleet is split evenly between the two models
Ratio_mut(qty, total_drones) ==
    IF RPos(total_drones) THEN RDiv(qty, total_drones) ELSE Rat(1, 2)

\* flip_ratio / mini4_ratio: share of one model in the fleet
Ratio(qty, total_drones) ==
    IF RPos(total_drones) THEN RDiv(qty, total_drones) ELSE Q(0)

\* mix-weighted average price of one model
AvgRev(daily, weekend, weekly, c) ==
    RSum(<< RMul(daily, RDiv(c.mix_daily, Q(100))),
            RMul(weekend, RDiv(c.mix_weekend, Q(100))),
            RMul(weekly, RDiv(c.mix_weekly, Q(100))) >>)

\* variant: the SD cards are left out of the capital expenditure
Capex_mut(c) ==
    RSum(<< RMul(c.flip_qty, c.flip_cost), RMul(c.mini4_qty, c.mini4_cost),
            total_hard_cases_cost(c), c.battery_cost, c.filter_cost,
            c.web_cost, c.legal_cost >>)

Capex(c) ==
    LET total_drones == RAdd(c.flip_qty, c.mini4_qty)
        capex == RSum(<< RMul(c.flip_qty, c.flip_cost),
                         RMul(c.mini4_qty, c.mini4_cost),
                         total_hard_cases_cost(c), c.battery_cost,
                         c.filter_cost, c.web_cost, c.legal_cost >>)
        total_sd_card_cost == RMul(total_drones, sd_card_cost_per_unit)
    IN  RAdd(capex, total_sd_card_cost)

Opex(c) ==
    RSum(<< c.platform_cost, c.domain_cost, c.insurance_cost, c.caa_cost,
            c.marketing_cost, c.repairs_cost, c.accountant_cost >>)

\* variant: the guard only excludes a zero margin
BreakEvenDays_mut(total_first_year_costs, contribution_margin) ==
    IF contribution_margin[1] # 0
    THEN RDiv(total_first_year_costs, contribution_margin)
    ELSE Q(0)

BreakEvenDays(total_first_year_costs, contribution_margin) ==
    IF RPos(contribution_margin)
    THEN RDiv(total_first_year_costs, contribution_margin)
    ELSE Q(0)

TotalAvailableDays(total_drones) == RMul(total_drones, Q(365))

\* variant: the utilisation is left as a fraction instead of a percentage
BreakEvenUtilisation_mut(break_even_days, total_available_days) ==
    IF RPos(total_available_days)
    THEN RDiv(break_even_days, total_available_days)
    ELSE Q(0)

BreakEvenUtilisation(break_even_days, total_available_days) ==
    IF RPos(total_available_days)
    THEN RMul(RDiv(break_even_days, total_available_days), Q(100))
    ELSE Q(0)

calculate_financials(c, costs) ==
    LET total_drones == RAdd(c.flip_qty, c.mini4_qty)
        capex == Capex(c)
        additional_costs_total == RSum(Amounts(costs))
        opex == Opex(c)
        total_first_year_costs == RAdd(RAdd(capex, opex), additional_costs_total)
        flip_avg_rev == AvgRev(c.flip_daily, c.flip_weekend, c.flip_weekly, c)
        mini4_avg_rev == AvgRev(c.mini4_daily, c.mini4_weekend, c.mini4_weekly, c)
        flip_ratio == Ratio(c.flip_qty, total_drones)
        mini4_ratio == Ratio(c.mini4_qty, total_drones)
        weighted_avg_revenue == RAdd(RMul(flip_avg_rev, flip_ratio),
                                     RMul(mini4_avg_rev, mini4_ratio))
        processing_cost == RMul(weighted_avg_revenue,
                                RDiv(c.processing_fee, Q(100)))
        variable_cost_per_rental ==
            RAdd(total_shipping_cost_per_rental(c), processing_cost)
        contribution_margin ==
            RSub(weighted_avg_revenue, variable_cost_per_rental)
        break_even_days ==
            BreakEvenDays(total_first_year_costs, contribution_margin)
        total_available_days == TotalAvailableDays(total_drones)
        break_even_utilisation ==
            BreakEvenUtilisation(break_even_days, total_available_days)
    IN  [ total_first_year_costs |-> total_first_year_costs,
          weighted_avg_revenue |-> weighted_avg_revenue,
          contribution_margin |-> contribution_margin,
          break_even_days |-> break_even_days,
          break_even_utilisation |-> break_even_utilisation,
          total_drones |-> total_drones,
          total_available_days |-> total_available_days,
          variable_cost_per_rental |-> variable_cost_per_rental,
          opex |-> opex,
          capex |-> capex ]

\* variant: the profit is net of all first-year costs, the additional ones
\* included
calculate_projection_net_mut(res, utilisation) ==
    LET rental_days == RMul(res.total_available_days, RDiv(utilisation, Q(100)))
        total_revenue == RMul(rental_days, res.weighted_avg_revenue)
        total_variable_costs == RMul(rental_days, res.variable_cost_per_rental)
        profit == RSub(RSub(total_revenue, total_variable_costs),
                       res.total_first_year_costs)
    IN  [revenue |-> total_revenue, profit |-> profit]

\* ----------------------------------------------------------- calculate_projection
\* variant: utilisation // 100.0 (floor division) instead of utilisation / 100.0
calculate_projection_mut(res, utilisation) ==
    LET rental_days == RMul(res.total_available_days,
                            Q(utilisation[1] \div (utilisation[2] * 100)))
        total_revenue == RMul(rental_days, res.weighted_avg_revenue)
        total_variable_costs == RMul(rental_days, res.variable_cost_per_rental)
        profit == RSub(RSub(RSub(total_revenue, res.opex), total_variable_costs),
                       res.capex)
    IN  [revenue |-> total_revenue, profit |-> profit]

\* module-level calculate_projection(utilisation), closed over results
calculate_projection(res, utilisation) ==
    LET rental_days == RMul(res.total_available_days, RDiv(utilisation, Q(100)))
        total_revenue == RMul(rental_days, res.weighted_avg_revenue)
        total_variable_costs == RMul(rental_days, res.variable_cost_per_rental)
        profit == RSub(RSub(RSub(total_revenue, res.opex), total_variable_costs),
                       res.capex)
    IN  [revenue |-> total_revenue, profit |-> profit]

\* ------------------------------------------------------- calculate_vat_analysis
\* variant: a reduced 15% rate
vat_rate_mut == Rat(15, 100)

vat_rate == Rat(20, 100)
vat_threshold == Q(85000)

\* the entries of vat_deductible_items, in source order
VatDeductibleItems(c) ==
    << RMul(RMul(c.flip_qty, c.flip_cost), vat_rate),
       RMul(RMul(c.mini4_qty, c.mini4_cost), vat_rate),
       RMul(total_hard_cases_cost(c), vat_rate),
       RMul(RMul(RAdd(c.flip_qty, c.mini4_qty), Rat(3899, 100)), vat_rate),
       RMul(c.battery_cost, vat_rate),
       RMul(c.filter_cost, vat_rate),
       RMul(c.web_cost, vat_rate),
       RMul(c.legal_cost, vat_rate),
       RMul(c.platform_cost, vat_rate),
       RMul(c.domain_cost, vat_rate),
       RMul(c.insurance_cost, vat_rate),
       RMul(c.caa_cost, vat_rate),
       RMul(c.marketing_cost, vat_rate),
       RMul(c.repairs_cost, vat_rate),
       RMul(c.shipping_cost, vat_rate),
       RMul(c.box_cost, vat_rate),
       RMul(RMul(c.accountant_cost, Q(12)), vat_rate) >>

\* variant: a refund position is reported as zero VAT payable
NetVatPayable_mut(total_revenue_vat, total_vat_deductible) ==
    IF RLt(total_revenue_vat, total_vat_deductible) THEN Q(0)
    ELSE RSub(total_revenue_vat, total_vat_deductible)

NetVatPayable(total_revenue_vat, total_vat_deductible) ==
    RSub(total_revenue_vat, total_vat_deductible)

\* variant: no revenue is reported as zero months to the threshold
MonthsToThreshold_mut(actual_annual_revenue) ==
    IF RPos(actual_annual_revenue)
    THEN RMul(RDiv(vat_threshold, actual_annual_revenue), Q(12))
    ELSE Q(0)

MonthsToThreshold(actual_annual_revenue) ==
    IF RPos(actual_annual_revenue)
    THEN RMul(RDiv(vat_threshold, actual_annual_revenue), Q(12))
    ELSE Inf

calculate_vat_analysis(res, c, costs) ==
    LET base_utilisation == Q(20)
        actual_rental_days ==
            RMul(res.total_available_days, RDiv(base_utilisation, Q(100)))
        actual_annual_revenue == RMul(res.weighted_avg_revenue, actual_rental_days)
        total_revenue_vat == RMul(actual_annual_revenue, vat_rate)
        vat_deductible_items == VatDeductibleItems(c)
        additional_costs_vat ==
            RSum([i \in 1..Len(costs) |-> RMul(costs[i].amount, vat_rate)])
        total_vat_deductible ==
            RAdd(RSum(vat_deductible_items), additional_costs_vat)
        net_vat_payable == NetVatPayable(total_revenue_vat, total_vat_deductible)
        actual_annual_profit ==
            RSub(RSub(RSub(actual_annual_revenue,
                           RMul(res.variable_cost_per_rental, actual_rental_days)),
                      res.opex), res.capex)
        profit_after_vat == RSub(actual_annual_profit, net_vat_payable)
    IN  [ vat_rate |-> vat_rate,
          total_revenue_vat |-> total_revenue_vat,
          vat_deductible_items |-> vat_deductible_items,
          total_vat_deductible |-> total_vat_deductible,
          net_vat_payable |-> net_vat_payable,
          profit_before_vat |-> actual_annual_profit,
          profit_after_vat |-> profit_after_vat,
          vat_threshold |-> vat_threshold,
          annual_revenue |-> actual_annual_revenue,
          months_to_threshold |-> MonthsToThreshold(actual_annual_revenue),
          additional_costs_vat |-> additional_costs_vat,
          actual_rental_days |-> actual_rental_days,
          base_utilisation |-> base_utilisation ]

\* the "VAT Status" metric of the results header
VatStatus(vat) ==
    IF RLe(vat.vat_threshold, vat.annual_revenue)
    THEN "Must Register" ELSE "Below Threshold"

\* VAT tab: "VAT Recovery Rate", an unguarded division
VatRecoveryRate(vat) ==
    LET q == RDiv(vat.total_vat_deductible, vat.total_revenue_vat)
    IN  IF q = Raised THEN Raised ELSE RMul(q, Q(100))

\* -------------------------------------------------- calculate_monthly_projection
\* the hardcoded weighted average days per rental
avg_rental_duration ==
    RSum(<< RMul(Rat(2, 10), Q(1)), RMul(Rat(6, 10), Q(2)), RMul(Rat(2, 10), Q(7)) >>)

calculate_monthly_projection(res, utilisation) ==
    LET rental_days == RMul(res.total_available_days, RDiv(utilisation, Q(100)))
        total_revenue == RMul(rental_days, res.weighted_avg_revenue)
        total_variable_costs == RMul(rental_days, res.variable_cost_per_rental)
        monthly_revenue == RDiv(total_revenue, Q(12))
        monthly_variable_costs == RDiv(total_variable_costs, Q(12))
        monthly_operational_costs == RDiv(res.opex, Q(12))
        monthly_profit == RSub(RSub(monthly_revenue, monthly_variable_costs),
                               monthly_operational_costs)
        monthly_rental_days == RDiv(rental_days, Q(12))
        monthly_rentals == IF RPos(avg_rental_duration)
                           THEN RDiv(monthly_rental_days, avg_rental_duration)
                           ELSE Q(0)
    IN  [ monthly_revenue |-> monthly_revenue,
          monthly_profit |-> monthly_profit,
          monthly_rental_days |-> monthly_rental_days,
          monthly_rentals |-> monthly_rentals,
          monthly_variable_costs |-> monthly_variable_costs,
          monthly_operational_costs |-> monthly_operational_costs,
          annual_revenue |-> total_revenue,
          annual_profit |-> RMul(monthly_profit, Q(12)),
          avg_rental_duration |-> avg_rental_duration ]

target_utilisation_rates == << Q(15), Q(20), Q(30) >>

\* ---------------------------------------------------- calculate_business_metrics
base_rates == << Q(15), Q(20), Q(30) >>

\* sorted(base_rates + [x]) for an already sorted sequence
RECURSIVE InsertSorted(_, _)
InsertSorted(s, x) ==
    IF s = << >> THEN << x >>
    ELSE IF RLt(x, Head(s)) THEN << x >> \o s
    ELSE << Head(s) >> \o InsertSorted(Tail(s), x)

\* default utilisation_rates when the caller passes None
DefaultUtilisationRates(res) ==
    LET break_even_util == res.break_even_utilisation
    IN  IF /\ \A i \in 1..Len(base_rates) : base_rates[i] # break_even_util
           /\ RLe(Q(10), break_even_util)
           /\ RLe(break_even_util, Q(50))
        THEN InsertSorted(base_rates, break_even_util)
        ELSE base_rates

\* variant: the return is left as a fraction instead of a percentage
Roi_mut(annual_profit, initial_investment) ==
    IF RPos(initial_investment)
    THEN RDiv(annual_profit, initial_investment)
    ELSE Q(0)

Roi(annual_profit, initial_investment) ==
    IF RPos(initial_investment)
    THEN RMul(RDiv(annual_profit, initial_investment), Q(100))
    ELSE Q(0)

\* variant: the guard only excludes a zero profit
PaybackYears_mut(initial_investment, annual_profit) ==
    IF annual_profit[1] # 0 THEN RDiv(initial_investment, annual_profit) ELSE Inf

PaybackYears(initial_investment, annual_profit) ==
    IF RPos(annual_profit) THEN RDiv(initial_investment, annual_profit) ELSE Inf

PaybackMonths(payback_years) ==
    IF payback_years # Inf THEN RMul(payback_years, Q(12)) ELSE Inf

\* variant: a twelfth of the capital expenditure is charged to every month
MonthlyCashFlow_mut(res, util) ==
    LET rental_days == RMul(res.total_available_days, RDiv(util, Q(100)))
        total_revenue == RMul(rental_days, res.weighted_avg_revenue)
        total_variable_costs == RMul(rental_days, res.variable_cost_per_rental)
    IN  RDiv(RSub(RSub(RSub(total_revenue, total_variable_costs), res.opex),
                  res.capex), Q(12))

\* monthly cash flow of the ROI loop (capex excluded)
MonthlyCashFlow(res, util) ==
    LET rental_days == RMul(res.total_available_days, RDiv(util, Q(100)))
        total_revenue == RMul(rental_days, res.weighted_avg_revenue)
        total_variable_costs == RMul(rental_days, res.variable_cost_per_rental)
        monthly_revenue == RDiv(total_revenue, Q(12))
        monthly_variable_costs == RDiv(total_variable_costs, Q(12))
        monthly_operational_costs == RDiv(res.opex, Q(12))
    IN  RSub(RSub(monthly_revenue, monthly_variable_costs),
             monthly_operational_costs)

\* ('name', revenue_mult, cost_mult)
scenarios ==
    << [name |-> "Revenue -10%", revenue_mult |-> Rat(9, 10), cost_mult |-> Q(1)],
       [name |-> "Revenue -5%", revenue_mult |-> Rat(95, 100), cost_mult |-> Q(1)],
       [name |-> "Base Case", revenue_mult |-> Q(1), cost_mult |-> Q(1)],
       [name |-> "Revenue +5%", revenue_mult |-> Rat(105, 100), cost_mult |-> Q(1)],
       [name |-> "Revenue +10%", revenue_mult |-> Rat(110, 100), cost_mult |-> Q(1)],
       [name |-> "Costs +10%", revenue_mult |-> Q(1), cost_mult |-> Rat(11, 10)],
       [name |-> "Costs +5%", revenue_mult |-> Q(1), cost_mult |-> Rat(105, 100)],
       [name |-> "Costs -5%", revenue_mult |-> Q(1), cost_mult |-> Rat(95, 100)],
       [name |-> "Costs -10%", revenue_mult |-> Q(1), cost_mult |-> Rat(9, 10)] >>

\* 'Revenue' in scenario_name
HasRevenueInName(name) ==
    name \in {"Revenue -10%", "Revenue -5%", "Revenue +5%", "Revenue +10%"}

AdjustedProfit(res, base_proj, sc) ==
    LET base_profit == base_proj.profit
    IN  IF HasRevenueInName(sc.name)
        THEN LET adjusted_revenue == RMul(base_proj.revenue, sc.revenue_mult)
                 adjusted_variable_costs ==
                     RMul(RSub(RSub(base_proj.revenue, base_profit), res.opex),
                          sc.revenue_mult)
             IN  RSub(RSub(RSub(adjusted_revenue, res.opex),
                           adjusted_variable_costs), res.capex)
        ELSE RSub(base_profit, RMul(res.opex, RSub(sc.cost_mult, Q(1))))

ProfitChange(adjusted_profit, base_profit) ==
    IF base_profit[1] # 0
    THEN RMul(RDiv(RSub(adjusted_profit, base_profit), base_profit), Q(100))
    ELSE Q(0)

RiskEntry(res, util) ==
    LET case == calculate_projection(res, util)
        initial_investment == res.total_first_year_costs
    IN  [ Annual_Profit |-> case.profit,
          ROI |-> IF RPos(initial_investment)
                  THEN RMul(RDiv(case.profit, initial_investment), Q(100))
                  ELSE Q(0),
          Payback_Years |-> IF RPos(case.profit)
                            THEN RDiv(initial_investment, case.profit)
                            ELSE Inf ]

calculate_business_metrics(res) ==
    LET utilisation_rates == DefaultUtilisationRates(res)
        initial_investment == res.total_first_year_costs
        n == Len(utilisation_rates)
        annual_profit(i) == calculate_projection(res, utilisation_rates[i]).profit
        base_proj == calculate_projection(res, Q(20))
    IN  [ roi_data |->
              [i \in 1..n |->
                  [ Utilisation |-> utilisation_rates[i],
                    ROI |-> Roi(annual_profit(i), initial_investment),
                    Annual_Profit |-> annual_profit(i),
                    Initial_Investment |-> initial_investment ]],
          payback_data |->
              [i \in 1..n |->
                  LET payback_years ==
                          PaybackYears(initial_investment, annual_profit(i))
                  IN  [ Utilisation |-> utilisation_rates[i],
                        Payback_Years |-> payback_years,
                        Payback_Months |-> PaybackMonths(payback_years),
                        Annual_Profit |-> annual_profit(i) ]],
          cash_flow_data |->
              [i \in 1..n |->
                  LET monthly_cash_flow == MonthlyCashFlow(res, utilisation_rates[i])
                  IN  [ Utilisation |-> utilisation_rates[i],
                        Monthly_Cash_Flow |-> monthly_cash_flow,
                        Annual_Cash_Flow |-> RMul(monthly_cash_flow, Q(12)),
                        Monthly_Profit |-> monthly_cash_flow ]],
          sensitivity_data |->
              [k \in 1..Len(scenarios) |->
                  LET adjusted_profit == AdjustedProfit(res, base_proj, scenarios[k])
                  IN  [ Scenario |-> scenarios[k].name,
                        Adjusted_Profit |-> adjusted_profit,
                        Profit_Change |-> ProfitChange(adjusted_profit,
                                                        base_proj.profit) ]],
          risk_metrics |->
              [ Worst_Case |-> RiskEntry(res, Q(10)),
                Expected_Case |-> RiskEntry(res, Q(20)),
                Best_Case |-> RiskEntry(res, Q(40)) ] ]

\* ------------------------------------------------------------ create_export_data
\* variant: the nested projection leaves the capital expenditure out of
\* the profit
export_calculate_projection_mut(res, utilisation) ==
    LET rental_days == RMul(res.total_available_days, RDiv(utilisation, Q(100)))
        total_revenue == RMul(rental_days, res.weighted_avg_revenue)
        total_variable_costs == RMul(rental_days, res.variable_cost_per_rental)
        profit == RSub(RSub(total_revenue, res.opex), total_variable_costs)
    IN  [revenue |-> total_revenue, profit |-> profit, rental_days |-> rental_days]

\* the calculate_projection nested in create_export_data
export_calculate_projection(res, utilisation) ==
    LET rental_days == RMul(res.total_available_days, RDiv(utilisation, Q(100)))
        total_revenue == RMul(rental_days, res.weighted_avg_revenue)
        total_variable_costs == RMul(rental_days, res.variable_cost_per_rental)
        profit == RSub(RSub(RSub(total_revenue, res.opex), total_variable_costs),
                       res.capex)
    IN  [revenue |-> total_revenue, profit |-> profit, rental_days |-> rental_days]

export_utilisation_rates ==
    << Q(10), Q(15), Q(20), Q(25), Q(30), Q(35), Q(40), Q(45), Q(50) >>

create_export_data(res) ==
    [ projections |->
        [i \in 1..Len(export_utilisation_rates) |->
            LET util == export_utilisation_rates[i]
                proj == export_calculate_projection(res, util)
            IN  [ Utilisation_Rate |-> util,
                  Rental_Days |-> proj.rental_days,
                  Annual_Revenue |-> proj.revenue,
                  Annual_Profit |-> proj.profit,
                  Profit_Margin |-> IF RPos(proj.revenue)
                                    THEN RMul(RDiv(proj.profit, proj.revenue), Q(100))
                                    ELSE Q(0) ]] ]

\* ----------------------------------------------------------- generate_pdf_report
\* the ROI table reads data['Payback Years'] from every roi_data record; a
\* missing key raises KeyError
generate_pdf_report(bm) ==
    IF \A i \in 1..Len(bm.roi_data) : "Payback_Years" \in DOMAIN bm.roi_data[i]
    THEN "pdf_data"
    ELSE "KeyError"

\* -------------------------------------------------------------------- one pass
\* variant: the results branch only rejects a mix above 100
ResultsBranch_mut(c) == RLe(mix_total(c), Q(100))

\* the rental mix check that opens the results branch
ResultsBranch(c) == mix_total(c) = Q(100)

\* the validation message under the rental mix inputs
MixMessage(c) == IF mix_total(c) # Q(100) THEN "error" ELSE "success"

ResultSections ==
    { "downloads", "key_metrics", "annual_projections", "monthly_projections",
      "cost_structure", "charts", "pdf_button", "tabs" }

ResultFunctions ==
    { "calculate_financials", "calculate_vat_analysis", "create_export_data",
      "calculate_projection", "calculate_monthly_projection",
      "calculate_business_metrics" }

\* ---- what the last pass computed and rendered, top to bottom ----

\* the validation message of the last pass
mix_message == MixMessage(cfg)

\* variant: a pass in which the PDF button was clicked has lost the list of
\* additional costs
results_mut ==
    IF ResultsBranch(cfg)
    THEN calculate_financials(cfg,
                              IF pdf_clicked THEN << >> ELSE additional_costs)
    ELSE None

\* results = calculate_financials(), computed in the results branch only
results ==
    IF ResultsBranch(cfg) THEN calculate_financials(cfg, additional_costs)
    ELSE None

vat_analysis ==
    LET res == results
    IN  IF res = None THEN None
        ELSE calculate_vat_analysis(res, cfg, additional_costs)

export_data ==
    LET res == results
    IN  IF res = None THEN None ELSE create_export_data(res)

monthly ==
    LET res == results
    IN  IF res = None THEN None
        ELSE [i \in 1..Len(target_utilisation_rates) |->
                 calculate_monthly_projection(res, target_utilisation_rates[i])]

business_metrics ==
    LET res == results
    IN  IF res = None THEN None ELSE calculate_business_metrics(res)

\* outcome of the PDF button handler: the try block around
\* generate_pdf_report reports any exception with st.error
pdf ==
    IF results = None \/ ~pdf_clicked THEN NotClicked
    ELSE IF generate_pdf_report(business_metrics) = "KeyError" THEN "error"
    ELSE "generated"

\* the exception that ended the pass: the VAT tab divides without a guard
fault ==
    IF results # None /\ VatRecoveryRate(vat_analysis) = Raised
    THEN ZeroDivisionError
    ELSE NoFault

\* calculation functions the pass called
executed ==
    IF results = None THEN {}
    ELSE ResultFunctions
         \cup (IF pdf_clicked THEN {"generate_pdf_report"} ELSE {})

\* output sections the pass rendered; an exception ends the pass before the
\* VAT charts and the footer
shown ==
    IF results = None THEN {"warning", "footer"}
    ELSE ResultSections
         \cup (IF pdf = "generated" THEN {"pdf_download"} ELSE {})
         \cup (IF fault = ZeroDivisionError THEN {}
               ELSE {"vat_charts", "footer"})

\* ------------------------------------------------------------------- behaviour
\* one execution of the script, top to bottom, over widget values c and the
\* list costs; clicked is the value the PDF button returns in it
Run(c, costs, clicked) ==
    /\ cfg' = c
    /\ additional_costs' = costs
    /\ pdf_clicked' = clicked

Configs ==
    { Merge(Merge(Merge(Merge(Merge(
        [ flip_qty |-> fq, mini4_qty |-> mq, accountant_cost |-> ac,
          flip_cost |-> Q(0), mini4_cost |-> Q(0), case_cost_per_unit |-> Q(0),
          battery_cost |-> Q(0), filter_cost |-> Q(0), web_cost |-> Q(0),
          legal_cost |-> Q(0), platform_cost |-> Q(0), domain_cost |-> Q(0),
          insurance_cost |-> Q(0), caa_cost |-> Q(0), marketing_cost |-> Q(0),
          repairs_cost |-> Q(0), shipping_cost |-> Q(0), box_cost |-> Q(0),
          processing_fee |-> Q(0), flip_daily |-> Q(0), flip_weekend |-> Q(0),
          flip_weekly |-> Q(0), mini4_daily |-> Q(0), mini4_weekend |-> Q(0),
          mini4_weekly |-> Q(0), mix_daily |-> Q(0), mix_weekend |-> Q(0),
          mix_weekly |-> Q(0) ], cap), op), va), pr), mx) :
        fq \in QtyValues, mq \in QtyValues, ac \in AccountantInputs,
        cap \in CapitalInputs, op \in OperationalInputs, va \in VariableInputs,
        pr \in PricingInputs, mx \in MixInputs }

\* first pass of a session: the list of additional costs is created empty
\* and no button has been clicked
Init ==
    /\ cfg \in Configs
    /\ additional_costs = << >>
    /\ pdf_clicked = FALSE

\* the user changes number_input widgets; the script reruns
SetFlipQty ==
    \E q \in QtyValues : Run([cfg EXCEPT !.flip_qty = q], additional_costs, FALSE)

SetMini4Qty ==
    \E q \in QtyValues : Run([cfg EXCEPT !.mini4_qty = q], additional_costs, FALSE)

SetCapital ==
    \E part \in CapitalInputs : Run(Merge(cfg, part), additional_costs, FALSE)

SetOperational ==
    \E part \in OperationalInputs : Run(Merge(cfg, part), additional_costs, FALSE)

SetAccountant ==
    \E a \in AccountantInputs :
        Run([cfg EXCEPT !.accountant_cost = a], additional_costs, FALSE)

SetVariable ==
    \E part \in VariableInputs : Run(Merge(cfg, part), additional_costs, FALSE)

SetPricing ==
    \E part \in PricingInputs : Run(Merge(cfg, part), additional_costs, FALSE)

SetMix ==
    \E part \in MixInputs : Run(Merge(cfg, part), additional_costs, FALSE)

\* "Add Additional Cost" button
AddAdditionalCost ==
    /\ Len(additional_costs) < MaxCosts
    /\ Run(cfg, Append(additional_costs, [amount |-> Q(0), note |-> ""]), FALSE)

\* the user edits the amount of entry i; the loop writes it back to the list
EditAdditionalCost ==
    \E i \in 1..Len(additional_costs), new_amount \in AmountInputs :
        Run(cfg, [additional_costs EXCEPT ![i].amount = new_amount], FALSE)

\* additional_costs.pop(index), with index counted from 1
Popped(costs, index) ==
    SubSeq(costs, 1, index - 1) \o SubSeq(costs, index + 1, Len(costs))

\* the loop over the list in the pass that follows st.rerun(): it writes the
\* value of the widgets cost_amount_j and cost_note_j back into entry j.
\* Whether a keyed widget whose value= argument changed shows the new
\* default or keeps the value it had (that of entry j before the pop)
\* depends on the Streamlit release, so both outcomes (keeps) are possible
WrittenBack(popped, before, keeps) ==
    [j \in 1..Len(popped) |-> IF keeps THEN before[j] ELSE popped[j]]

\* the bin button of entry i: pop(index), st.rerun(), and the pass that follows
RemoveAdditionalCostAt(i) ==
    \E keeps \in BOOLEAN :
        Run(cfg,
            WrittenBack(Popped(additional_costs, i), additional_costs, keeps),
            FALSE)

RemoveAdditionalCost ==
    \E i \in 1..Len(additional_costs) : RemoveAdditionalCostAt(i)

\* "Generate Business Plan PDF" button: it is rendered inside the results
\* branch, before anything that can end the pass
ClickGeneratePdf ==
    /\ ResultsBranch(cfg)
    /\ Run(cfg, additional_costs, TRUE)

Next ==
    \/ SetFlipQty
    \/ SetMini4Qty
    \/ SetCapital
    \/ SetOperational
    \/ SetAccountant
    \/ SetVariable
    \/ SetPricing
    \/ SetMix
    \/ AddAdditionalCost
    \/ EditAdditionalCost
    \/ RemoveAdditionalCost
    \/ ClickGeneratePdf

Spec == Init /\ [][Next]_vars

\* the calculator alone: the passes that the input widgets and the list of
\* additional costs trigger.  The PDF button, which changes no input of the
\* calculation functions, is left out
CalcNext ==
    \/ SetFlipQty
    \/ SetMini4Qty
    \/ SetCapital
    \/ SetOperational
    \/ SetAccountant
    \/ SetVariable
    \/ SetPricing
    \/ SetMix
    \/ AddAdditionalCost
    \/ EditAdditionalCost
    \/ RemoveAdditionalCost

CalcSpec == Init /\ [][CalcNext]_vars

\* a session in which the user only presses buttons: the widgets keep the
\* values of the first pass
ButtonNext ==
    \/ AddAdditionalCost
    \/ EditAdditionalCost
    \/ RemoveAdditionalCost
    \/ ClickGeneratePdf

ButtonSpec == Init /\ [][ButtonNext]_vars

\* the calculator with the premium price list among the inputs
SetPremiumPricing == Run(Merge(cfg, PremiumPricing), additional_costs, FALSE)

PremiumNext ==
    \/ SetPremiumPricing
    \/ CalcNext

PremiumSpec == Init /\ [][PremiumNext]_vars

\* ======================================================================
\* Properties
\* ======================================================================

\* annual profit at utilisation u, recomputed from the inputs of the pass
ProfitAt(u) == calculate_projection(results, u).profit

\* sum of the amounts currently in the additional-costs list
AdditionalTotal == RSum(Amounts(additional_costs))

\* a pass that left res, vat, ex, sh and msg behind took no step of the
\* results branch
NothingComputed(res, vat, ex, sh, msg) ==
    /\ res = None
    /\ vat = None
    /\ ex = {}
    /\ pdf = NotClicked
    /\ sh \cap (ResultSections \cup {"pdf_download", "vat_charts"}) = {}
    /\ "warning" \in sh
    /\ msg = "error"

\* a pass that left res, vat, ex, sh and msg behind went through the results
\* branch
BranchExecuted(res, vat, ex, sh, msg) ==
    /\ res # None
    /\ vat # None
    /\ ResultFunctions \subseteq ex
    /\ ResultSections \subseteq sh
    /\ "warning" \notin sh
    /\ msg = "success"

\* C1: whenever mix_daily + mix_weekend + mix_weekly is not exactly 100 the
\* pass produces no results: none of the calculation functions is executed,
\* no download / PDF section is rendered, and only the validation error and
\* the "adjust the rental mix" warning are shown; whenever the sum is exactly
\* 100 the results branch is executed.
C1_MixGate ==
    IF RAdd(RAdd(cfg.mix_daily, cfg.mix_weekend), cfg.mix_weekly) # Q(100)
    THEN NothingComputed(results, vat_analysis, executed, shown, mix_message)
    ELSE BranchExecuted(results, vat_analysis, executed, shown, mix_message)

\* a pass over the mix 40/40/10 that showed the warning
C1_Witness ==
    /\ cfg.mix_daily = Q(40) /\ cfg.mix_weekend = Q(40) /\ cfg.mix_weekly = Q(10)
    /\ "warning" \in shown
    /\ results = None

\* C2 as stated: with contribution margin > 0 the projection at the
\* break-even utilisation has annual profit -capex.
C2_Original ==
    (results # None /\ RPos(results.contribution_margin)) =>
        ProfitAt(results.break_even_utilisation) = RNeg(results.capex)

\* C2 amended: with contribution margin > 0 the projection at the break-even
\* utilisation has annual profit total_first_year_costs - opex - capex, which
\* is the sum of the additional-cost amounts (0 when there are none).
C2_BreakEvenProfit ==
    (results # None /\ RPos(results.contribution_margin)) =>
        /\ ProfitAt(results.break_even_utilisation) =
               RSub(RSub(results.total_first_year_costs, results.opex),
                    results.capex)
        /\ ProfitAt(results.break_even_utilisation) = AdditionalTotal

\* a pass with positive margin, capex and a non-zero additional cost
C2_Witness ==
    /\ results # None
    /\ RPos(results.contribution_margin)
    /\ RPos(results.capex)
    /\ RPos(AdditionalTotal)
    /\ RPos(results.break_even_utilisation)

\* utilisation percentages at which the monotonicity of the projection is
\* compared, together with the break-even point of the pass
UtilisationPoints ==
    {Q(0), Q(10), Q(15), Q(20), Q(25), Q(30), Q(40), Q(50), Q(100)}

\* the projected profit of res at each utilisation of pts
Profits(res, pts) == [u \in pts |-> calculate_projection(res, u).profit]

\* prof is strictly increasing over the utilisations pts
Increasing(pts, prof) ==
    \A u1, u2 \in pts : RLt(u1, u2) => RLt(prof[u1], prof[u2])

\* C3: for a configuration with contribution margin > 0 the projected profit
\* is strictly increasing in the utilisation, and total_available_days > 0.
C3_Monotonic ==
    (results # None /\ RPos(results.contribution_margin)) =>
        /\ RPos(results.total_available_days)
        /\ LET pts == UtilisationPoints \cup {results.break_even_utilisation}
           IN  Increasing(pts, Profits(results, pts))

\* a pass with positive margin whose break-even point lies strictly between
\* two of the fixed points
C3_Witness ==
    /\ results # None
    /\ RPos(results.contribution_margin)
    /\ RLt(Q(10), results.break_even_utilisation)
    /\ RLt(results.break_even_utilisation, Q(40))
    /\ results.break_even_utilisation \notin UtilisationPoints

\* the payback a record must report for an annual profit
ExpectedPayback(res, annual_profit) ==
    IF RLe(annual_profit, Q(0)) THEN Inf
    ELSE RDiv(res.total_first_year_costs, annual_profit)

\* years is the payback to report for the profit of res at utilisation util
GoodPayback(res, years, util) ==
    LET profit == calculate_projection(res, util).profit
    IN  /\ years = ExpectedPayback(res, profit)
        /\ years # Inf => RPos(years)

\* every payback_data record and risk scenario of bm reports the payback of
\* its own annual profit
PaybackReported(res, bm) ==
    /\ \A i \in 1..Len(bm.payback_data) :
           LET rec == bm.payback_data[i]
               profit == calculate_projection(res, rec.Utilisation).profit
           IN  /\ rec.Annual_Profit = profit
               /\ GoodPayback(res, rec.Payback_Years, rec.Utilisation)
               /\ rec.Payback_Months =
                      (IF RLe(profit, Q(0)) THEN Inf
                       ELSE RMul(ExpectedPayback(res, profit), Q(12)))
    /\ GoodPayback(res, bm.risk_metrics.Worst_Case.Payback_Years, Q(10))
    /\ GoodPayback(res, bm.risk_metrics.Expected_Case.Payback_Years, Q(20))
    /\ GoodPayback(res, bm.risk_metrics.Best_Case.Payback_Years, Q(40))

\* C4: in payback_data and in the three risk scenarios, an annual profit <= 0
\* is reported with the infinite sentinel for Payback Years (and Months), and
\* an annual profit > 0 with the finite positive value
\* total_first_year_costs / annual profit.
C4_PaybackSentinel ==
    results # None => PaybackReported(results, business_metrics)

\* a pass whose analysed points include a loss (infinite payback) and a
\* profit (finite payback)
C4_Witness ==
    /\ results # None
    /\ LET bm == business_metrics
       IN  /\ \E i \in 1..Len(bm.payback_data) :
                  /\ RLt(bm.payback_data[i].Annual_Profit, Q(0))
                  /\ bm.payback_data[i].Payback_Years = Inf
           /\ \E i \in 1..Len(bm.payback_data) :
                  /\ RPos(bm.payback_data[i].Annual_Profit)
                  /\ bm.payback_data[i].Payback_Years # Inf
           /\ bm.risk_metrics.Worst_Case.Payback_Years = Inf
           /\ bm.risk_metrics.Best_Case.Payback_Years # Inf

\* C5: a pass over a valid mix never divides by zero.
C5_NoZeroDivision ==
    mix_total(cfg) = Q(100) => fault # ZeroDivisionError

\* C6: with no drones at all, calculate_financials returns 0 for
\* weighted_avg_revenue, total_available_days, break_even_days and
\* break_even_utilisation.
C6_ZeroDrones ==
    (results # None /\ cfg.flip_qty = Q(0) /\ cfg.mini4_qty = Q(0)) =>
        /\ results.weighted_avg_revenue = Q(0)
        /\ results.total_available_days = Q(0)
        /\ results.break_even_days = Q(0)
        /\ results.break_even_utilisation = Q(0)

\* a pass with no drones, non-zero prices and non-zero costs
C6_Witness ==
    /\ results # None
    /\ cfg.flip_qty = Q(0) /\ cfg.mini4_qty = Q(0)
    /\ RPos(cfg.flip_daily) /\ RPos(cfg.mini4_weekly)
    /\ RPos(results.total_first_year_costs)

\* C7: opex counts the accountant fee twelve times (an annual amount).
C7_OpexAnnualAccountant ==
    results # None =>
        results.opex =
            RSum(<< cfg.platform_cost, cfg.domain_cost, cfg.insurance_cost,
                    cfg.caa_cost, cfg.marketing_cost, cfg.repairs_cost,
                    RMul(Q(12), cfg.accountant_cost) >>)

\* C8: the deductible VAT is the VAT rate applied to capex + opex + the
\* additional-cost amounts.
C8_DeductibleVat ==
    vat_analysis # None =>
        vat_analysis.total_vat_deductible =
            RMul(Rat(20, 100),
                 RAdd(RAdd(results.capex, results.opex), AdditionalTotal))

\* the mix-weighted mean rental duration of the configured mix
MixDuration ==
    RMul(Rat(1, 100),
         RSum(<< RMul(cfg.mix_daily, Q(1)), RMul(cfg.mix_weekend, Q(2)),
                 RMul(cfg.mix_weekly, Q(7)) >>))

\* C9: the average rental duration of the monthly projection is derived from
\* the configured mix, and monthly_rentals = monthly_rental_days / it.
C9_DurationFromMix ==
    results # None =>
        \A i \in 1..Len(monthly) :
            /\ monthly[i].avg_rental_duration = MixDuration
            /\ monthly[i].monthly_rentals =
                   RDiv(monthly[i].monthly_rental_days, MixDuration)

\* C10: every sensitivity scenario's adjusted profit is
\* m x revenue(20) - c x opex - m x (rental_days(20) x variable cost) - capex.
C10_Sensitivity ==
    results # None =>
        LET bm == business_metrics
            rental_days == RMul(results.total_available_days, Rat(20, 100))
            revenue == RMul(rental_days, results.weighted_avg_revenue)
            variable == RMul(rental_days, results.variable_cost_per_rental)
        IN  \A k \in 1..Len(scenarios) :
                LET m == scenarios[k].revenue_mult
                    c == scenarios[k].cost_mult
                IN  bm.sensitivity_data[k].Adjusted_Profit =
                        RSub(RSub(RSub(RMul(m, revenue), RMul(c, results.opex)),
                                  RMul(m, variable)),
                             results.capex)

\* the three defining equations of the VAT analysis vat of results res
VatIdentity(res, vat) ==
    /\ vat.profit_after_vat = RSub(vat.profit_before_vat, vat.net_vat_payable)
    /\ vat.net_vat_payable =
           RSub(vat.total_revenue_vat, vat.total_vat_deductible)
    /\ vat.total_revenue_vat =
           RMul(Rat(20, 100), calculate_projection(res, Q(20)).revenue)

\* C11: for every valid configuration profit_after_vat = profit_before_vat -
\* net_vat_payable, net_vat_payable = total_revenue_vat - total_vat_deductible
\* and total_revenue_vat = 0.20 x the annual revenue at 20% utilisation.
C11_VatIdentity == results # None => VatIdentity(results, vat_analysis)

\* a pass with revenue VAT, deductible VAT and a non-zero net VAT
C11_Witness ==
    /\ results # None
    /\ RPos(vat_analysis.total_revenue_vat)
    /\ RPos(vat_analysis.total_vat_deductible)
    /\ vat_analysis.net_vat_payable # Q(0)

\* at utilisation u, twelve monthly profits of res are the annual projection
\* profit with the capital expenditure added back
CapexAddedBack(res, u) ==
    RMul(Q(12), calculate_monthly_projection(res, u).monthly_profit) =
        RAdd(calculate_projection(res, u).profit, res.capex)

\* the cash flow records of bm report the monthly profit of the monthly
\* projection, which excludes the capital expenditure
CashFlowExcludesCapex(res, bm) ==
    /\ CapexAddedBack(res, Q(0))
    /\ CapexAddedBack(res, Q(100))
    /\ \A i \in 1..Len(bm.cash_flow_data) :
           LET rec == bm.cash_flow_data[i]
               month == calculate_monthly_projection(res, rec.Utilisation)
           IN  /\ CapexAddedBack(res, rec.Utilisation)
               /\ rec.Monthly_Cash_Flow = month.monthly_profit
               /\ month.monthly_profit =
                      RSub(RSub(month.monthly_revenue,
                                month.monthly_variable_costs),
                           RDiv(res.opex, Q(12)))

\* C12: for every utilisation u, 12 x monthly_profit(u) is the projection
\* profit at u plus capex, and the Monthly Cash Flow of the business metrics
\* at u is the monthly profit of the monthly projection at u (monthly revenue
\* - monthly variable costs - opex / 12).
C12_CashFlowExcludesCapex ==
    results # None => CashFlowExcludesCapex(results, business_metrics)

\* a pass with capital expenditure and revenue whose break-even point is one
\* of the analysed utilisations
C12_Witness ==
    /\ results # None
    /\ RPos(results.capex)
    /\ RPos(results.weighted_avg_revenue)
    /\ Len(business_metrics.cash_flow_data) = 4

\* the return on the total first-year cost of res at utilisation u, with the
\* capital expenditure subtracted from the profit
ExpectedRoi(res, u) ==
    LET rental_days == RMul(res.total_available_days, RDiv(u, Q(100)))
        revenue == RMul(rental_days, res.weighted_avg_revenue)
        variable == RMul(rental_days, res.variable_cost_per_rental)
        profit == RSub(RSub(RSub(revenue, res.opex), variable), res.capex)
    IN  IF res.total_first_year_costs = Q(0) THEN Q(0)
        ELSE RMul(RDiv(profit, res.total_first_year_costs), Q(100))

\* every roi_data record and risk scenario of bm reports ExpectedRoi
RoiReported(res, bm) ==
    /\ \A i \in 1..Len(bm.roi_data) :
           bm.roi_data[i].ROI = ExpectedRoi(res, bm.roi_data[i].Utilisation)
    /\ bm.risk_metrics.Worst_Case.ROI = ExpectedRoi(res, Q(10))
    /\ bm.risk_metrics.Expected_Case.ROI = ExpectedRoi(res, Q(20))
    /\ bm.risk_metrics.Best_Case.ROI = ExpectedRoi(res, Q(40))

\* C13: for every analysed utilisation u and every risk scenario, ROI =
\* (revenue(u) - opex - variable costs(u) - capex) / total_first_year_costs
\* x 100 when total_first_year_costs > 0, and 0 when it is 0.
C13_RoiCapexInclusive ==
    results # None => RoiReported(results, business_metrics)

\* a pass with costs whose analysed utilisations include a negative and a
\* positive return
C13_Witness ==
    /\ results # None
    /\ RPos(results.total_first_year_costs)
    /\ RPos(results.capex)
    /\ RLt(business_metrics.risk_metrics.Worst_Case.ROI, Q(0))
    /\ RPos(business_metrics.risk_metrics.Best_Case.ROI)

\* the break-even figures res must report for its contribution margin
BreakEvenFigures(res) ==
    IF RLe(res.contribution_margin, Q(0))
    THEN /\ res.break_even_days = Q(0)
         /\ res.break_even_utilisation = Q(0)
    ELSE /\ res.break_even_days =
                RDiv(res.total_first_year_costs, res.contribution_margin)
         /\ res.break_even_utilisation =
                RMul(RDiv(res.break_even_days,
                          RMul(res.total_drones, Q(365))), Q(100))

\* C14: whenever contribution_margin <= 0, calculate_financials returns
\* break_even_days = 0 and break_even_utilisation = 0; whenever it is > 0 it
\* returns break_even_days = total_first_year_costs / contribution_margin and
\* break_even_utilisation = break_even_days / (total_drones x 365) x 100.
C14_BreakEvenSentinel == results # None => BreakEvenFigures(results)

\* a pass that earns revenue at a negative contribution margin, with costs
\* to recover
C14_Witness ==
    /\ results # None
    /\ RPos(results.weighted_avg_revenue)
    /\ RLt(results.contribution_margin, Q(0))
    /\ RPos(results.total_first_year_costs)
    /\ results.break_even_days = Q(0)

\* capex and total_first_year_costs of res are the sums of the cost lines of
\* the widget values c and of the amounts of the list costs
CostsAggregated(res, c, costs) ==
    LET drones == RAdd(c.flip_qty, c.mini4_qty)
    IN  /\ res.capex =
               RSum(<< RMul(c.flip_qty, c.flip_cost),
                       RMul(c.mini4_qty, c.mini4_cost),
                       RMul(drones, c.case_cost_per_unit),
                       c.battery_cost, c.filter_cost, c.web_cost, c.legal_cost,
                       RMul(drones, Rat(3899, 100)) >>)
        /\ res.total_first_year_costs =
               RAdd(RAdd(res.capex, res.opex), RSum(Amounts(costs)))

\* C15: capex = flip_qty x flip_cost + mini4_qty x mini4_cost + (flip_qty +
\* mini4_qty) x case_cost_per_unit + battery_cost + filter_cost + web_cost +
\* legal_cost + (flip_qty + mini4_qty) x 38.99, and total_first_year_costs =
\* capex + opex + the sum of the amounts of all additional-cost entries.
C15_CostAggregation ==
    results # None => CostsAggregated(results, cfg, additional_costs)

\* a pass with both drone models, every capital cost line and an additional
\* cost
C15_Witness ==
    /\ results # None
    /\ RPos(cfg.flip_qty) /\ RPos(cfg.mini4_qty)
    /\ RPos(cfg.flip_cost) /\ RPos(cfg.case_cost_per_unit)
    /\ RPos(results.opex)
    /\ RPos(AdditionalTotal)

\* ------------------------------------------------ IEEE-754 double arithmetic
\* Where a result must be exact to the last bit, the float operations are
\* evaluated as the hardware does: the exact result rounded to 53 significant
\* bits, ties to even.  A natural number of any size is a sequence of limbs
\* in base 2^14, least significant first, without leading zero limbs; a
\* non-negative double is [m |-> odd natural, e |-> exponent], its value
\* m * 2^e (zero is m = << >>, e = 0).  The values of the model stay far
\* inside the normal range, so overflow and subnormals do not arise.
LimbBase == 16384
LimbBits == 14
MantissaBits == 53

RECURSIVE BigNorm(_)
BigNorm(a) ==
    IF a = << >> THEN << >>
    ELSE IF a[Len(a)] = 0 THEN BigNorm(SubSeq(a, 1, Len(a) - 1))
    ELSE a

RECURSIVE BigFromInt(_)
BigFromInt(n) ==
    IF n = 0 THEN << >>
    ELSE << n % LimbBase >> \o BigFromInt(n \div LimbBase)

RECURSIVE BigAddCarry(_, _, _)
BigAddCarry(a, b, carry) ==
    IF a = << >> /\ b = << >>
    THEN (IF carry = 0 THEN << >> ELSE << carry >>)
    ELSE LET x == (IF a = << >> THEN 0 ELSE Head(a))
                  + (IF b = << >> THEN 0 ELSE Head(b)) + carry
         IN  << x % LimbBase >>
             \o BigAddCarry(IF a = << >> THEN << >> ELSE Tail(a),
                            IF b = << >> THEN << >> ELSE Tail(b),
                            x \div LimbBase)

BigAdd(a, b) == BigAddCarry(a, b, 0)

\* a * k + carry for one limb k
RECURSIVE BigMulLimb(_, _, _)
BigMulLimb(a, k, carry) ==
    IF a = << >> THEN BigFromInt(carry)
    ELSE LET x == Head(a) * k + carry
         IN  << x % LimbBase >> \o BigMulLimb(Tail(a), k, x \div LimbBase)

RECURSIVE BigMulRaw(_, _)
BigMulRaw(a, b) ==
    IF b = << >> THEN << >>
    ELSE BigAdd(BigMulLimb(a, Head(b), 0), << 0 >> \o BigMulRaw(a, Tail(b)))

BigMul(a, b) == BigNorm(BigMulRaw(a, b))

\* quotient (with leading zero limbs) and remainder of a by one limb d
RECURSIVE BigDivLimb(_, _)
BigDivLimb(a, d) ==
    IF a = << >> THEN [q |-> << >>, r |-> 0]
    ELSE LET hi == BigDivLimb(Tail(a), d)
             cur == hi.r * LimbBase + Head(a)
         IN  [q |-> << cur \div d >> \o hi.q, r |-> cur % d]

\* a * 2^k
BigShl(a, k) ==
    IF a = << >> THEN << >>
    ELSE [i \in 1..(k \div LimbBits) |-> 0]
         \o BigMulLimb(a, 2 ^ (k % LimbBits), 0)

\* a \div 2^k
BigShr(a, k) ==
    LET drop == k \div LimbBits
    IN  IF drop >= Len(a) THEN << >>
        ELSE BigNorm(BigDivLimb(SubSeq(a, drop + 1, Len(a)),
                                2 ^ (k % LimbBits)).q)

\* bit i of a (bit 0 is the least significant)
BigBit(a, i) ==
    IF i \div LimbBits >= Len(a) THEN 0
    ELSE (a[(i \div LimbBits) + 1] \div (2 ^ (i % LimbBits))) % 2

RECURSIVE IntBitLen(_)
IntBitLen(n) == IF n = 0 THEN 0 ELSE 1 + IntBitLen(n \div 2)

BigBitLen(a) ==
    IF a = << >> THEN 0
    ELSE LimbBits * (Len(a) - 1) + IntBitLen(a[Len(a)])

\* number of trailing zero bits of a non-zero natural, counted from bit i
RECURSIVE BigTrailingZeros(_, _)
BigTrailingZeros(a, i) ==
    IF BigBit(a, i) = 1 THEN i ELSE BigTrailingZeros(a, i + 1)

\* the double m * 2^e for a natural m of at most 53 bits
FCanon(m, e) ==
    IF m = << >> THEN [m |-> << >>, e |-> 0]
    ELSE LET tz == BigTrailingZeros(m, 0)
         IN  [m |-> BigShr(m, tz), e |-> e + tz]

\* m * 2^e rounded to 53 bits once the bits to drop are known: guard is the
\* first dropped bit, rest tells whether anything non-zero lies below it
FRoundUp(q, e, guard, rest) ==
    IF guard = 1 /\ (rest \/ BigBit(q, 0) = 1)
    THEN FCanon(BigAdd(q, << 1 >>), e)
    ELSE FCanon(q, e)

\* the double nearest to m * 2^e (+ a fraction of 2^e when sticky), ties to
\* even
FRound(m, e, sticky) ==
    IF BigBitLen(m) <= MantissaBits THEN FCanon(m, e)
    ELSE LET sh == BigBitLen(m) - MantissaBits
         IN  FRoundUp(BigShr(m, sh), e + sh, BigBit(m, sh - 1),
                      sticky \/ \E i \in 0..(sh - 2) : BigBit(m, i) = 1)

\* float(n) for an integer 0 <= n < 2^31
FInt(n) == FCanon(BigFromInt(n), 0)

\* a * b
FMul(a, b) == FRound(BigMul(a.m, b.m), a.e + b.e, FALSE)

\* a + b
FAdd(a, b) ==
    IF a.m = << >> THEN b
    ELSE IF b.m = << >> THEN a
    ELSE LET e == IF a.e < b.e THEN a.e ELSE b.e
         IN  FRound(BigAdd(BigShl(a.m, a.e - e), BigShl(b.m, b.e - e)), e, FALSE)

\* the quotient of a * 2^k by the one-limb b, rounded
FDivShifted(a, b, k) ==
    LET d == BigDivLimb(BigShl(a.m, k), b.m[1])
    IN  FRound(BigNorm(d.q), a.e - b.e - k, d.r # 0)

\* a / b for a divisor b # 0 whose odd part is below 2^14 (100.0, a number of
\* drones): the quotient is developed to at least 55 bits before rounding
FDiv(a, b) ==
    IF a.m = << >> THEN a
    ELSE FDivShifted(a, b, MantissaBits + 2 + BigBitLen(b.m))

\* the float a number_input returns for the decimal n/d typed into it
FValue(r) == FDiv(FInt(r[1]), FInt(r[2]))

\* --------------------------- weighted_avg_revenue in double arithmetic
\* mix-weighted average price of one model, as the floats compute it (the sum
\* associates to the left)
FloatAvgRev(daily, weekend, weekly, c) ==
    LET mix_daily_pct == FDiv(FValue(c.mix_daily), FInt(100))
        mix_weekend_pct == FDiv(FValue(c.mix_weekend), FInt(100))
        mix_weekly_pct == FDiv(FValue(c.mix_weekly), FInt(100))
    IN  FAdd(FAdd(FMul(FValue(daily), mix_daily_pct),
                  FMul(FValue(weekend), mix_weekend_pct)),
             FMul(FValue(weekly), mix_weekly_pct))

FloatRatio(qty, total_drones) ==
    IF total_drones.m # << >> THEN FDiv(qty, total_drones) ELSE FInt(0)

\* variant: each model's average is weighted by the other model's share
FloatWeightedAvgRevenue_mut(c) ==
    LET total_drones == FAdd(FValue(c.flip_qty), FValue(c.mini4_qty))
        flip_avg_rev == FloatAvgRev(c.flip_daily, c.flip_weekend, c.flip_weekly, c)
        mini4_avg_rev ==
            FloatAvgRev(c.mini4_daily, c.mini4_weekend, c.mini4_weekly, c)
        flip_ratio == FloatRatio(FValue(c.flip_qty), total_drones)
        mini4_ratio == FloatRatio(FValue(c.mini4_qty), total_drones)
    IN  FAdd(FMul(flip_avg_rev, mini4_ratio), FMul(mini4_avg_rev, flip_ratio))

\* the value calculate_financials returns under 'weighted_avg_revenue'
FloatWeightedAvgRevenue(c) ==
    LET total_drones == FAdd(FValue(c.flip_qty), FValue(c.mini4_qty))
        flip_avg_rev == FloatAvgRev(c.flip_daily, c.flip_weekend, c.flip_weekly, c)
        mini4_avg_rev ==
            FloatAvgRev(c.mini4_daily, c.mini4_weekend, c.mini4_weekly, c)
        flip_ratio == FloatRatio(FValue(c.flip_qty), total_drones)
        mini4_ratio == FloatRatio(FValue(c.mini4_qty), total_drones)
    IN  FAdd(FMul(flip_avg_rev, flip_ratio), FMul(mini4_avg_rev, mini4_ratio))

\* the same value in exact arithmetic
ExactWeightedAvgRevenue(c) ==
    LET total_drones == RAdd(c.flip_qty, c.mini4_qty)
    IN  RAdd(RMul(AvgRev(c.flip_daily, c.flip_weekend, c.flip_weekly, c),
                  Ratio(c.flip_qty, total_drones)),
             RMul(AvgRev(c.mini4_daily, c.mini4_weekend, c.mini4_weekly, c),
                  Ratio(c.mini4_qty, total_drones)))

\* ------------------------------------------------------------------ presets
PresetCosts ==
    [ flip_qty |-> Q(3), flip_cost |-> Rat(58795, 100), mini4_qty |-> Q(1),
      mini4_cost |-> Q(899), case_cost_per_unit |-> Q(45),
      battery_cost |-> Q(0), filter_cost |-> Q(0), web_cost |-> Q(0),
      legal_cost |-> Q(100), platform_cost |-> Q(228), domain_cost |-> Q(30),
      insurance_cost |-> Q(750), caa_cost |-> Rat(1179, 100),
      marketing_cost |-> Q(6000), repairs_cost |-> Rat(2956, 10),
      shipping_cost |-> Q(32), box_cost |-> Rat(151, 100),
      processing_fee |-> Rat(3, 2), accountant_cost |-> Q(50) ]

PRESETS ==
    [ Proposal1 |->
        PresetCosts @@
        [ flip_daily |-> Q(49), flip_weekend |-> Q(85), flip_weekly |-> Q(165),
          mini4_daily |-> Q(65), mini4_weekend |-> Q(109),
          mini4_weekly |-> Q(210),
          mix_daily |-> Q(20), mix_weekend |-> Q(60), mix_weekly |-> Q(20) ],
      Proposal2 |->
        PresetCosts @@
        [ flip_daily |-> Q(45), flip_weekend |-> Rat(7299, 100),
          flip_weekly |-> Q(130),
          mini4_daily |-> Q(45), mini4_weekend |-> Rat(8499, 100),
          mini4_weekly |-> Q(190),
          mix_daily |-> Q(10), mix_weekend |-> Q(65), mix_weekly |-> Q(25) ] ]

\* the widgets whose default is not the same in every preset (the prices and
\* the mix); every other widget has one default and keeps what it shows
PresetDependent ==
    { k \in DOMAIN PRESETS.Proposal1 :
        \E p \in DOMAIN PRESETS : PRESETS[p][k] # PRESETS.Proposal1[k] }

\* the selectbox moves to preset name and the script reruns.  The widgets
\* that depend on the preset carry a key: whether such a widget follows its
\* new default or keeps its value depends on the Streamlit release, so
\* both outcomes (follows) are possible
SelectPreset ==
    \E name \in DOMAIN PRESETS, follows \in BOOLEAN :
        Run([k \in DOMAIN cfg |->
                IF follows /\ k \in PresetDependent
                THEN PRESETS[name][k] ELSE cfg[k]],
            additional_costs, FALSE)

\* first pass of a session: the selectbox shows its first option and every
\* widget its default
PresetInit ==
    /\ cfg = PRESETS.Proposal1
    /\ additional_costs = << >>
    /\ pdf_clicked = FALSE

PresetNext ==
    \/ SelectPreset
    \/ Next

PresetSpec == PresetInit /\ [][PresetNext]_vars

\* ---------------------------------------------------------------------- C16
\* the scenario of the example: 3 Flips, 1 Mini 4 Pro, mix 20/60/20 and the
\* prices of 'Proposal 1'
Proposal1Scenario(c) ==
    /\ c.flip_qty = Q(3) /\ c.mini4_qty = Q(1)
    /\ \A k \in PresetDependent : c[k] = PRESETS.Proposal1[k]

\* 2^-46, one unit in the last place of a double between 64 and 128
UlpAt100 == [m |-> << 1 >>, e |-> -46]

\* C16 as stated: in the scenario of the example the weighted_avg_revenue
\* that calculate_financials returns is the float 100.45.
C16_Original ==
    (ResultsBranch(cfg) /\ Proposal1Scenario(cfg))
        => FloatWeightedAvgRevenue(cfg) = FValue(Rat(10045, 100))

\* C16 (amended): in the scenario of the example the value is 100.45 in
\* exact arithmetic, and the float that calculate_financials returns is
\* 100.44999999999999, one unit in the last place (2^-46) below the float
\* 100.45.
C16_ScenarioRevenue ==
    (ResultsBranch(cfg) /\ Proposal1Scenario(cfg))
        => /\ ExactWeightedAvgRevenue(cfg) = Rat(10045, 100)
           /\ FAdd(FloatWeightedAvgRevenue(cfg), UlpAt100)
                = FValue(Rat(10045, 100))

C16_Witness ==
    /\ ResultsBranch(cfg) /\ Proposal1Scenario(cfg)
    /\ cfg.flip_cost = Rat(58795, 100)
    /\ Len(additional_costs) = 1

\* ------------------------------------------ create_export_data: inputs table
\* the four column lists of inputs_data as the literals give them
InputsCategory ==
    [i \in 1..10 |-> "Capital Expenditure"]
    \o [i \in 1..9 |-> "Operational Costs"]
    \o [i \in 1..11 |-> "Pricing Strategy"]

InputsParameter ==
    << "DJI Flips Quantity", "DJI Flip Cost per Unit",
       "DJI Mini 4 Pros Quantity", "DJI Mini 4 Pro Cost per Unit",
       "Hard Case Cost per Unit", "Extra Batteries Cost", "ND Filters Cost",
       "Website Setup Cost", "SD Cards Cost", "Legal Fees",
       "E-commerce Platform", "Domain & Hosting", "Corporate Insurance",
       "CAA Renewal", "Digital Marketing", "Repairs & Maintenance",
       "Accountant Costs (Monthly)", "Shipping Supplies",
       "Shipping Cost per Rental", "DJI Flip Daily Price",
       "DJI Flip Weekend Price", "DJI Flip Weekly Price",
       "DJI Mini 4 Pro Daily Price", "DJI Mini 4 Pro Weekend Price",
       "DJI Mini 4 Pro Weekly Price", "Rental Mix Daily %",
       "Rental Mix Weekend %", "Rental Mix Weekly %",
       "Payment Processing Fee %" >>

InputsValue(c) ==
    << c.flip_qty, c.flip_cost, c.mini4_qty, c.mini4_cost,
       c.case_cost_per_unit, c.battery_cost, c.filter_cost, c.web_cost,
       RMul(RAdd(c.flip_qty, c.mini4_qty), sd_card_cost_per_unit),
       c.legal_cost, c.platform_cost, c.domain_cost, c.insurance_cost,
       c.caa_cost, c.marketing_cost, c.repairs_cost, c.accountant_cost,
       c.shipping_cost, total_shipping_cost_per_rental(c),
       c.flip_daily, c.flip_weekend, c.flip_weekly,
       c.mini4_daily, c.mini4_weekend, c.mini4_weekly,
       c.mix_daily, c.mix_weekend, c.mix_weekly, c.processing_fee >>

InputsUnit ==
    << "units", "GBP", "units", "GBP" >>
    \o [i \in 1..19 |-> "GBP"]
    \o [i \in 1..4 |-> "%"]

\* f"Additional Cost {i+1}: {note}" or f"Additional Cost {i+1}"; i counts
\* from 1 here
AdditionalCostLabel(i, note) == << "Additional Cost", i, note >>

\* the entries of the list with amount > 0, in order, as the indices they
\* have in the list
RECURSIVE PositiveCosts(_, _)
PositiveCosts(costs, i) ==
    IF i > Len(costs) THEN << >>
    ELSE (IF RPos(costs[i].amount) THEN << i >> ELSE << >>)
         \o PositiveCosts(costs, i + 1)

\* the column after the while loop that fills it up to base_length
PadColumn(column, base_length, filler) ==
    column \o [i \in 1..(base_length - Len(column)) |-> filler]

\* the 'inputs' frame that create_export_data returns, row by row
ExportInputs(c, costs) ==
    LET added == PositiveCosts(costs, 1)
        category == InputsCategory
                    \o [j \in 1..Len(added) |-> "Additional Costs"]
        parameter == InputsParameter
                     \o [j \in 1..Len(added) |->
                            AdditionalCostLabel(added[j], costs[added[j]].note)]
        value == InputsValue(c)
                 \o [j \in 1..Len(added) |-> costs[added[j]].amount]
        unit == InputsUnit \o [j \in 1..Len(added) |-> "GBP"]
        base_length == Len(category)
        Category == PadColumn(category, base_length, "Additional Costs")
        Parameter == PadColumn(parameter, base_length, "")
        Value == PadColumn(value, base_length, Q(0))
        Unit == PadColumn(unit, base_length, "GBP")
    IN  [r \in 1..base_length |->
            [Category |-> Category[r], Parameter |-> Parameter[r],
             Value |-> Value[r], Unit |-> Unit[r]]]

\* the inputs table of the pass
export_inputs ==
    IF results = None THEN None ELSE ExportInputs(cfg, additional_costs)

\* ---------------------------------------------------------------------- C17
\* the rows of the table whose Parameter is p
RowsOf(table, p) == {r \in DOMAIN table : table[r].Parameter = p}

\* exactly one row has Parameter p, and it carries the given fields
OneRow(table, p, category, value, unit) ==
    /\ Cardinality(RowsOf(table, p)) = 1
    /\ \A r \in RowsOf(table, p) :
          /\ table[r].Category = category
          /\ table[r].Value = value
          /\ table[r].Unit = unit

\* C17: in a pass that computes results, every additional cost with amount
\* > 0 is one row of the inputs table with Category 'Additional Costs', its
\* amount as Value and Unit pounds, and the rows of the three rental-mix
\* percentages and of the processing fee carry their value with Unit '%'.
C17_InputsRows ==
    results # None =>
        /\ \A i \in 1..Len(additional_costs) :
              RPos(additional_costs[i].amount) =>
                  OneRow(export_inputs,
                         AdditionalCostLabel(i, additional_costs[i].note),
                         "Additional Costs", additional_costs[i].amount, "GBP")
        /\ OneRow(export_inputs, "Rental Mix Daily %", "Pricing Strategy",
                  cfg.mix_daily, "%")
        /\ OneRow(export_inputs, "Rental Mix Weekend %", "Pricing Strategy",
                  cfg.mix_weekend, "%")
        /\ OneRow(export_inputs, "Rental Mix Weekly %", "Pricing Strategy",
                  cfg.mix_weekly, "%")
        /\ OneRow(export_inputs, "Payment Processing Fee %", "Pricing Strategy",
                  cfg.processing_fee, "%")

\* ---------------------------------------------------------------------- C18
\* C18: when the mix sums to 100 and the user clicks 'Generate Business Plan
\* PDF', generate_pdf_report returns the PDF (every key it reads from the
\* roi_data records exists) and the pass offers the download, not the error
\* message.
C18_PdfGenerated ==
    (results # None /\ pdf_clicked) =>
        /\ generate_pdf_report(business_metrics) # "KeyError"
        /\ pdf = "generated"
        /\ "pdf_download" \in shown

\* ---------------------------------------------------------------------- C19
\* a refund position: the deductible VAT exceeds the VAT on revenue
RefundPosition(vat) == RLt(vat.total_revenue_vat, vat.total_vat_deductible)

NetVatUnclamped(vat) ==
    /\ vat.net_vat_payable
         = RSub(vat.total_revenue_vat, vat.total_vat_deductible)
    /\ RefundPosition(vat) =>
          /\ RLt(vat.net_vat_payable, Q(0))
          /\ RLt(vat.profit_before_vat, vat.profit_after_vat)

\* C19: net_vat_payable is the VAT on revenue minus the deductible VAT,
\* never clamped: in a refund position it is strictly negative and
\* profit_after_vat is strictly greater than profit_before_vat.
C19_NetVatUnclamped == results # None => NetVatUnclamped(vat_analysis)

C19_Witness ==
    /\ results # None
    /\ RefundPosition(vat_analysis)
    /\ RPos(vat_analysis.total_revenue_vat)
    /\ RLt(vat_analysis.net_vat_payable, Q(0))

\* ---------------------------------------------------------------------- C20
\* the VAT status shown by the pass
vat_status == IF results = None THEN None ELSE VatStatus(vat_analysis)

ThresholdReported(revenue, vat, status) ==
    /\ vat.annual_revenue = revenue
    /\ RPos(revenue) =>
          vat.months_to_threshold = RMul(RDiv(Q(85000), revenue), Q(12))
    /\ revenue = Q(0) => vat.months_to_threshold = Inf
    /\ status = "Must Register" <=> RLe(Q(85000), revenue)
    /\ status = "Below Threshold" <=> RLt(revenue, Q(85000))

\* C20: months_to_threshold is 85000 / (annual revenue at 20% utilisation)
\* x 12 when that revenue is > 0 and the infinite sentinel when it is 0;
\* registration is reported as required exactly when that revenue is >=
\* 85000.
C20_MonthsToThreshold ==
    results # None =>
        ThresholdReported(calculate_projection(results, Q(20)).revenue,
                          vat_analysis, vat_status)

\* a pass whose revenue at 20% utilisation is above the threshold: fewer
\* than 12 months to the threshold, registration required
C20_Witness ==
    /\ results # None
    /\ RLt(Q(85000), vat_analysis.annual_revenue)
    /\ RLt(vat_analysis.months_to_threshold, Q(12))
    /\ vat_status = "Must Register"

\* ---------------------------------------------------------------------- C21
\* the figures of a pass over widget values c and list costs, from what the
\* calculation functions read: the widget values of the pass and the list
Figures(c, costs) ==
    IF mix_total(c) = Q(100)
    THEN LET res == calculate_financials(c, costs)
         IN  [ results |-> res,
               vat_analysis |-> calculate_vat_analysis(res, c, costs),
               business_metrics |-> calculate_business_metrics(res) ]
    ELSE [ results |-> None, vat_analysis |-> None, business_metrics |-> None ]

\* the figures of the pass are those of its inputs
FiguresOfInputs(figures) ==
    /\ results = figures.results
    /\ vat_analysis = figures.vat_analysis
    /\ business_metrics = figures.business_metrics

SummaryExpected(bm) ==
    [ expected_roi |-> bm.roi_data[2].ROI,
      expected_payback |-> bm.payback_data[2].Payback_Years,
      expected_cash_flow |-> bm.cash_flow_data[2].Monthly_Cash_Flow ]

ExpectedAtTwenty(res, bm, expected) ==
    /\ bm.roi_data[2].Utilisation = Q(20)
    /\ expected.expected_roi = bm.risk_metrics.Expected_Case.ROI
    /\ expected.expected_payback = bm.risk_metrics.Expected_Case.Payback_Years
    /\ expected.expected_cash_flow
         = calculate_monthly_projection(res, Q(20)).monthly_profit

\* C22: in a pass that computes results, the "Expected ROI", "Payback
\* Period" and "Monthly Cash Flow" shown as the expectation at 20%
\* utilisation are the values for utilisation 20 (the ROI and payback of the
\* Expected Case risk scenario), whatever the break-even utilisation is.
C22_ExpectedAtTwenty ==
    LET res == results
        bm == business_metrics
    IN  res # None => ExpectedAtTwenty(res, bm, SummaryExpected(bm))

\* ---------------------------------------------------------------------- C23
\* the utilisation points at which the two projections are compared: the
\* fixed points of every table and the break-even point
ComparedPoints(res) ==
    UtilisationPoints
    \cup {export_utilisation_rates[i] : i \in 1..Len(export_utilisation_rates)}
    \cup {res.break_even_utilisation}

ProjectionsAgree(res, vat, bm) ==
    /\ \A u \in ComparedPoints(res) :
          LET proj == calculate_projection(res, u)
              exported == export_calculate_projection(res, u)
          IN  /\ exported.revenue = proj.revenue
              /\ exported.profit = proj.profit
    /\ LET expected == calculate_projection(res, Q(20))
       IN  /\ vat.annual_revenue = expected.revenue
           /\ vat.profit_before_vat = expected.profit
           /\ bm.risk_metrics.Expected_Case.Annual_Profit = expected.profit

\* C23: in a pass that computes results, the calculate_projection nested in
\* create_export_data and the module-level calculate_projection return the
\* same revenue and profit at every utilisation, and the annual_revenue and
\* profit_before_vat of calculate_vat_analysis are the revenue and profit of
\* calculate_projection(20), which is the Expected Case annual profit.
C23_ProjectionsAgree ==
    LET res == results
    IN  res # None => ProjectionsAgree(res, vat_analysis, business_metrics)

\* a pass with revenue, variable costs, operational costs and capital
\* expenditure, so that every term of the projection counts
C23_Witness ==
    /\ results # None
    /\ RPos(results.weighted_avg_revenue)
    /\ RPos(results.variable_cost_per_rental)
    /\ RPos(results.opex)
    /\ RPos(results.capex)
    /\ RPos(results.break_even_utilisation)

\* --------------------------------------- create_export_data: cost breakdown
\* the rows of cost_breakdown_data: the fixed rows, then one row per
\* additional cost with amount > 0
ExportCostBreakdown(c, costs) ==
    LET row(category, amount, type) ==
            [Cost_Category |-> category, Amount |-> amount, Type |-> type]
        added == PositiveCosts(costs, 1)
    IN  << row("DJI Flips", RMul(c.flip_qty, c.flip_cost), "Capital"),
           row("DJI Mini 4 Pros", RMul(c.mini4_qty, c.mini4_cost), "Capital"),
           row("SD Cards",
               RMul(RAdd(c.flip_qty, c.mini4_qty), sd_card_cost_per_unit),
               "Capital"),
           row("Hard Cases", total_hard_cases_cost(c), "Capital"),
           row("Extra Batteries", c.battery_cost, "Capital"),
           row("ND Filters", c.filter_cost, "Capital"),
           row("Website & Legal", RAdd(c.web_cost, c.legal_cost), "Capital"),
           row("E-commerce Platform", c.platform_cost, "Operational"),
           row("Domain & Hosting", c.domain_cost, "Operational"),
           row("Insurance & CAA", RAdd(c.insurance_cost, c.caa_cost),
               "Operational"),
           row("Marketing", c.marketing_cost, "Operational"),
           row("Repairs & Maintenance", c.repairs_cost, "Operational"),
           row("Accountant Costs", RMul(c.accountant_cost, Q(12)),
               "Operational"),
           row("Shipping Supplies", c.shipping_cost, "Operational") >>
        \o [j \in 1..Len(added) |->
               row(AdditionalCostLabel(added[j], costs[added[j]].note),
                   costs[added[j]].amount, "Additional")]

\* the cost breakdown table of the pass
export_cost_breakdown ==
    IF results = None THEN None
    ELSE ExportCostBreakdown(cfg, additional_costs)

\* ---------------------------------------------------------------------- C24
\* sum of the Amount column over the rows of the given types
AmountOfTypes(table, types) ==
    RSum([r \in 1..Len(table) |->
             IF table[r].Type \in types THEN table[r].Amount ELSE Q(0)])

BreakdownItemises(res, table) ==
    /\ AmountOfTypes(table, {"Capital"}) = res.capex
    /\ AmountOfTypes(table, {"Operational"}) = res.opex
    /\ AmountOfTypes(table, {"Capital", "Operational", "Additional"})
         = res.total_first_year_costs

\* C24: in a pass that computes results and whose additional costs all have
\* amount > 0, the Capital rows of the cost breakdown sum to capex, the
\* Operational rows to opex and all rows to total_first_year_costs.
C24_BreakdownItemises ==
    LET res == results
    IN  (/\ res # None
         /\ \A i \in 1..Len(additional_costs) :
               RPos(additional_costs[i].amount))
            => BreakdownItemises(res, export_cost_breakdown)

\* ---------------------------------------------------------------------- C25
\* rental days of a projection at the given utilisation
RentalDaysAt(res, utilisation) ==
    RMul(res.total_available_days, RDiv(utilisation, Q(100)))

CostsRecovered(res, added) ==
    LET days == RentalDaysAt(res, res.break_even_utilisation)
    IN  /\ RMul(days, res.contribution_margin) = res.total_first_year_costs
        /\ res.total_first_year_costs = RAdd(RAdd(res.capex, res.opex), added)
        /\ calculate_projection(res, res.break_even_utilisation).profit = added

\* C25: with contribution margin > 0 the contribution earned over the rental
\* days of the break-even utilisation equals total_first_year_costs, which is
\* capex + opex + the additional costs, and the projected profit at the
\* break-even utilisation is the additional-costs total.
C25_CostsRecovered ==
    LET res == results
    IN  (res # None /\ RPos(res.contribution_margin))
            => CostsRecovered(res, AdditionalTotal)

\* a pass with positive margin and costs of all three kinds
C25_Witness ==
    /\ results # None
    /\ RPos(results.contribution_margin)
    /\ RPos(results.capex)
    /\ RPos(results.opex)
    /\ RPos(AdditionalTotal)
    /\ RLt(results.break_even_utilisation, Q(100))

\* ---------------------------------------------------------------------- C26
\* the utilisations of the entries of a table of calculate_business_metrics
AnalysedPoints(table) == [i \in 1..Len(table) |-> table[i].Utilisation]

Ascending(points) ==
    \A i, j \in 1..Len(points) : i < j => RLt(points[i], points[j])

BreakEvenAnalysed(res, bm) ==
    \A table \in {bm.roi_data, bm.payback_data, bm.cash_flow_data} :
        LET points == AnalysedPoints(table)
        IN  /\ \E i \in 1..Len(points) : points[i] = res.break_even_utilisation
            /\ Ascending(points)

\* C26: with contribution margin > 0 the break-even utilisation is one of the
\* analysed points of roi_data, payback_data and cash_flow_data, and the
\* analysed points are in ascending order of utilisation.
C26_BreakEvenAnalysed ==
    LET res == results
    IN  (res # None /\ RPos(res.contribution_margin))
            => BreakEvenAnalysed(res, business_metrics)

\* ------------------------------------------------- annual projections tables
\* utilisation_rates of the annual projections table
ProjectionRates(res) == << Q(20), res.break_even_utilisation, Q(30), Q(40) >>

\* variant: only a negative utilisation is skipped
ProjectionShown_mut(util) == RLe(Q(0), util)

\* "if util > 0" of the loop over utilisation_rates
ProjectionShown(util) == RPos(util)

\* projections_data of section 6
AnnualProjections(res) ==
    LET rates == SelectSeq(ProjectionRates(res), ProjectionShown)
    IN  [i \in 1..Len(rates) |->
            LET proj == calculate_projection(res, rates[i])
            IN  [ Utilisation |-> rates[i],
                  Annual_Revenue |-> proj.revenue,
                  Annual_Profit |-> proj.profit ]]

\* projections_data of generate_pdf_report, with its profit margin column
PdfProjections(res) ==
    LET rates == SelectSeq(ProjectionRates(res), ProjectionShown)
    IN  [i \in 1..Len(rates) |->
            LET proj == calculate_projection(res, rates[i])
            IN  [ Utilisation |-> rates[i],
                  Annual_Revenue |-> proj.revenue,
                  Annual_Profit |-> proj.profit,
                  Profit_Margin |-> IF RPos(proj.revenue)
                                    THEN RMul(RDiv(proj.profit, proj.revenue),
                                              Q(100))
                                    ELSE Q(0) ]]

\* the annual projections table of the pass
projections_data ==
    LET res == results
    IN  IF res = None THEN None ELSE AnnualProjections(res)

\* the projections table built by the PDF button handler of the pass
pdf_projections_data ==
    LET res == results
    IN  IF res = None \/ ~pdf_clicked THEN None ELSE PdfProjections(res)

\* ---------------------------------------------------------------------- C27
\* the utilisations of the rows of a projections table
RowPoints(table) == [i \in 1..Len(table) |-> table[i].Utilisation]

\* the table holds the points 20, break-even, 30, 40 in that order, the
\* break-even one exactly when it is > 0, each with the projection at it
TablePoints(res, table) ==
    /\ RowPoints(table) =
         IF RPos(res.break_even_utilisation)
         THEN << Q(20), res.break_even_utilisation, Q(30), Q(40) >>
         ELSE << Q(20), Q(30), Q(40) >>
    /\ \A i \in 1..Len(table) :
          LET proj == calculate_projection(res, table[i].Utilisation)
          IN  /\ table[i].Annual_Revenue = proj.revenue
              /\ table[i].Annual_Profit = proj.profit

\* C27: the annual projections table of the screen, and the one the PDF
\* handler builds, evaluate the projection at 20, break-even, 30, 40 in that
\* order; the break-even row is present exactly when break_even_utilisation
\* is > 0.
C27_ProjectionPoints ==
    LET res == results
    IN  res # None =>
            /\ TablePoints(res, projections_data)
            /\ pdf_clicked => TablePoints(res, pdf_projections_data)

\* a pass with the PDF button clicked whose second row is the break-even
\* point, which is none of the fixed points and lies below the first row
C27_Witness ==
    /\ results # None
    /\ pdf_clicked
    /\ RPos(results.break_even_utilisation)
    /\ RLt(results.break_even_utilisation, Q(20))
    /\ Len(pdf_projections_data) = 4
    /\ projections_data[2].Utilisation = results.break_even_utilisation

\* ------------------------------------------------- the additional-costs list
\* longest list of additional costs in the behaviours of ListSpec
MaxListed == 2

\* "Add Additional Cost" button, for lists of up to MaxListed entries
AddListedCost ==
    /\ Len(additional_costs) < MaxListed
    /\ Run(cfg, Append(additional_costs, [amount |-> Q(0), note |-> ""]), FALSE)

\* the calculator with only the additional-costs section operated
ListNext ==
    \/ AddListedCost
    \/ EditAdditionalCost
    \/ RemoveAdditionalCost

ListSpec == Init /\ [][ListNext]_vars

\* ---------------------------------------------------------------------- C28
\* the figures of a pass use the sum of the amounts now in the list, and no
\* amount is negative
ListedAmountsUsed ==
    LET res == results
        vat == vat_analysis
    IN  /\ \A i \in 1..Len(additional_costs) :
              RLe(Q(0), additional_costs[i].amount)
        /\ res # None =>
              /\ RSub(RSub(res.total_first_year_costs, res.capex), res.opex)
                   = AdditionalTotal
              /\ vat.additional_costs_vat = RMul(AdditionalTotal, vat_rate)

\* a list that grows has the entry {amount 0, note ""} appended, and a click
\* on the bin of entry i leaves the list without entry i, the others unchanged
ListStep ==
    /\ Len(additional_costs') > Len(additional_costs) =>
          additional_costs' =
              Append(additional_costs, [amount |-> Q(0), note |-> ""])
    /\ \A i \in 1..Len(additional_costs) :
          RemoveAdditionalCostAt(i) =>
              additional_costs' = Popped(additional_costs, i)

CostDependentResults ==
    {"total_first_year_costs", "break_even_days", "break_even_utilisation"}

\* the values of vat_analysis that are the deductible VAT
DeductibleVat == {"total_vat_deductible", "additional_costs_vat"}

\* the values of vat_analysis computed from the deductible VAT
NetOfDeductibleVat == {"net_vat_payable", "profit_after_vat"}

\* the record agrees with base in every field but those of changed
SameBut(record, base, changed) ==
    /\ DOMAIN record = DOMAIN base
    /\ \A k \in DOMAIN record \ changed : record[k] = base[k]

\* the projections of res are those of base at every compared utilisation and
\* at both break-even points, the monthly figures at every compared
\* utilisation and at the analysed points of bm, and the sensitivity and risk
\* profits are those of base
ProjectionsFramed(res, bm, base, bm_base) ==
    /\ \A u \in UtilisationPoints
                  \cup {res.break_even_utilisation, base.break_even_utilisation} :
          calculate_projection(res, u) = calculate_projection(base, u)
    /\ \A u \in UtilisationPoints :
          /\ calculate_monthly_projection(res, u)
               = calculate_monthly_projection(base, u)
          /\ MonthlyCashFlow(res, u) = MonthlyCashFlow(base, u)
    /\ \A i \in 1..Len(bm.cash_flow_data) :
          /\ bm.cash_flow_data[i].Monthly_Cash_Flow
               = MonthlyCashFlow(base, bm.cash_flow_data[i].Utilisation)
          /\ bm.roi_data[i].Annual_Profit
               = calculate_projection(base, bm.roi_data[i].Utilisation).profit
          /\ bm.payback_data[i].Annual_Profit
               = calculate_projection(base, bm.payback_data[i].Utilisation).profit
    /\ bm.sensitivity_data = bm_base.sensitivity_data
    /\ \A case \in DOMAIN bm.risk_metrics :
          bm.risk_metrics[case].Annual_Profit
              = bm_base.risk_metrics[case].Annual_Profit

\* the figures of the pass, against those of the same inputs with an empty
\* list, differ at most in the cost-dependent results, in ROI and payback,
\* and in the values vat_changed of vat_analysis
Framed(figures, base, vat_changed) ==
    /\ SameBut(figures.results, base.results, CostDependentResults)
    /\ SameBut(figures.vat_analysis, base.vat_analysis, vat_changed)
    /\ ProjectionsFramed(figures.results, figures.business_metrics,
                         base.results, base.business_metrics)

\* C29 as stated: changing only the additional-costs list leaves capex, opex,
\* weighted_avg_revenue, variable_cost_per_rental, contribution_margin,
\* total_available_days, every projection, every monthly cash flow and
\* profit_before_vat unchanged, and changes only total_first_year_costs,
\* break_even_days, break_even_utilisation, ROI, payback and the deductible
\* VAT.
C29_Original ==
    ResultsBranch(cfg) =>
        Framed(Figures(cfg, additional_costs), Figures(cfg, << >>),
               DeductibleVat)

\* C29 amended: as above, and the values changed include net_vat_payable and
\* profit_after_vat, which are computed from the deductible VAT.
C29_Frame ==
    ResultsBranch(cfg) =>
        Framed(Figures(cfg, additional_costs), Figures(cfg, << >>),
               DeductibleVat \cup NetOfDeductibleVat)

\* a pass over a list with a non-zero amount, whose break-even point is
\* analysed and is not the one of the empty list
C29_Witness ==
    /\ results # None
    /\ RPos(AdditionalTotal)
    /\ RPos(results.contribution_margin)
    /\ Len(business_metrics.roi_data) = 4
    /\ results.break_even_utilisation
         # calculate_financials(cfg, << >>).break_even_utilisation
    /\ vat_analysis.net_vat_payable
         # calculate_vat_analysis(calculate_financials(cfg, << >>), cfg, << >>)
               .net_vat_payable

\* ---------------------------------------------------------------------- C30
\* the sign of the change reported by a sensitivity row is the direction in
\* which its adjusted profit departs from the base profit
SignMatches(row, base_profit) ==
    /\ RPos(row.Profit_Change) <=> RLt(base_profit, row.Adjusted_Profit)
    /\ RLt(row.Profit_Change, Q(0)) <=> RLt(row.Adjusted_Profit, base_profit)
    /\ row.Scenario = "Base Case" =>
          /\ row.Adjusted_Profit = base_profit
          /\ row.Profit_Change = Q(0)

\* C30: for every scenario of the sensitivity analysis Profit Change % is > 0
\* exactly when the adjusted profit is above the base profit at 20%
\* utilisation and < 0 exactly when it is below, and the Base Case row reports
\* the base profit and a change of 0, whatever the sign of the base profit.
C30_ChangeSign ==
    LET res == results
    IN  res # None =>
            LET bm == business_metrics
                base_profit == calculate_projection(res, Q(20)).profit
            IN  \A k \in 1..Len(bm.sensitivity_data) :
                    SignMatches(bm.sensitivity_data[k], base_profit)

====
